---- MODULE Spec2Model ----
(***************************************************************************)
(* Model of musicbot/entry.py: BasePlaylistEntry's readiness futures,       *)
(* URLPlaylistEntry's download coroutine and its JSON record, and          *)
(* OsuPlaylistEntry's download, run by a single asyncio loop.              *)
(*                                                                         *)
(* Strings are sequences of tokens.  The separators "-", "." and "/" are   *)
(* tokens of their own, every hexadecimal digit of a checksum is a token,  *)
(* and the other tokens are words that contain no separator.               *)
(***************************************************************************)
EXTENDS Integers, Sequences, FiniteSets, TLC

VARIABLES
    filename,           \* self.filename (None or a path)
    isDownloading,      \* self._is_downloading
    waiting,            \* self._waiting_futures: a list of futures
    expected_filename,  \* self.expected_filename
    dirExists,          \* os.path.exists(self.download_folder)
    disk,               \* the download folder, in os.listdir order
    ready,              \* the event loop's FIFO of callbacks ready to run
    pc,                 \* where the running _download task is suspended
    hashArg,            \* the hash argument of the suspended _really_download
    cand,               \* flistdir.index(expected_fname_noex) of the suspended task
    io,                 \* the outcome of the awaited call, once it is complete
    fut,                \* every asyncio.Future made by get_ready_future
    nextFut,            \* the number of futures made so far, plus one
    attempt,            \* the number of _download tasks that passed the guard
    started,            \* the number of _download tasks that started running
    burst,              \* every get_ready_future call preceded every task start
    everDownloaded,     \* is_downloaded has been true in some state so far
    lastEnd,            \* how the latest download attempt ended, if none runs
    inside,             \* the number of _download tasks between lines 141 and 213
    restored,           \* "no", or the kind of record from_json made the entry from
    workers             \* osu: _really_download calls the thread pool has not finished

vars == <<filename, isDownloading, waiting, expected_filename, dirExists, disk,
          ready, pc, hashArg, cand, io, fut, nextFut, attempt, started, burst,
          everDownloaded, lastEnd, inside, restored, workers>>

\* ------------------------------------------------------------------ bounds

\* The number of get_ready_future calls in a behaviour.
MaxFutures == 3

\* The number of files in the download folder before the entry is used.
MaxInitFiles == 2

\* The number of futures their owners cancel in a behaviour.
MaxCancels == 1

\* ----------------------------------------------------------------- strings

\* Python's None.  No path of the model is the empty string.
None == <<>>

\* The positions of token sep in string s.
Positions(s, sep) == {i \in 1..Len(s) : s[i] = sep}

\* The largest and the smallest element of a non-empty set of integers.
MaxOf(S) == CHOOSE i \in S : \A j \in S : j <= i

MinOf(S) == CHOOSE i \in S : \A j \in S : i <= j

\* s.rsplit(sep, 1): one part when sep is not in s, otherwise the text before
\* the last sep and the text after it.
RSplit1(s, sep) ==
    IF Positions(s, sep) = {} THEN <<s>>
    ELSE LET k == MaxOf(Positions(s, sep))
         IN  <<SubSeq(s, 1, k - 1), SubSeq(s, k + 1, Len(s))>>

\* s.split(sep)[0]: the text before the first sep, or all of s.
SplitFirst(s, sep) ==
    IF Positions(s, sep) = {} THEN s
    ELSE SubSeq(s, 1, MinOf(Positions(s, sep)) - 1)

\* os.path.basename(p): the text after the last path separator.
Basename(p) ==
    IF Positions(p, "/") = {} THEN p
    ELSE SubSeq(p, MaxOf(Positions(p, "/")) + 1, Len(p))

\* os.path.join(folder, name).
PathJoin(folder, name) == folder \o <<"/">> \o name

\* sep.join(parts) for a list of one or two parts.
StrJoin(sep, parts) ==
    IF Len(parts) = 1 THEN parts[1] ELSE parts[1] \o sep \o parts[2]

\* list.index(x): the first position of x in list l.
IndexOf(l, x) == MinOf({i \in 1..Len(l) : l[i] = x})

\* x in list.
InList(l, x) == \E i \in 1..Len(l) : l[i] = x

\* ------------------------------------------------------------- environment

\* self.download_folder.
Folder == <<"audio_cache">>

\* ytdl.prepare_filename for the url of a stable extractor and for the url
\* of the generic extractor.
StableName == PathJoin(Folder, <<"youtube", "-", "foo", ".", "mp3">>)

GenericName == PathJoin(Folder, <<"generic", "-", "bar", ".", "m4a">>)

\* The expected filenames an entry is constructed with: one of a stable
\* extractor, one of the generic extractor, and None.
ExpectedNames == {StableName, GenericName, None}

\* What a file can hold, and what the url can serve.
Contents == {1, 2}

\* The content of a file of no bytes.
Empty == 0

\* os.path.getsize of a file holding content c.
Size(c) == IF c = Empty THEN 0 ELSE IF c = 1 THEN 1000 ELSE 1200

\* The hexadecimal digest of content c (shortened to ten digits).
Digest(c) ==
    IF c = Empty THEN <<"9", "8", "e", "c", "f", "8", "4", "2", "7", "e">>
    ELSE IF c = 1 THEN <<"0", "f", "9", "r", "8", "a", "5", "k", "w", "1">>
    ELSE <<"0", "f", "3", "c", "7", "e", "2", "d", "b", "2">>

\* md5sum(path, limit): the last limit digits of the digest of the content.
Md5sum(c, limit) == SubSeq(Digest(c), Len(Digest(c)) - limit + 1, Len(Digest(c)))

\* The names in the download folder, as os.listdir returns them.
ListDir == [i \in 1..Len(disk) |-> disk[i].name]

\* os.path.isfile(path) for a path in the download folder.
IsFile(path) == \E i \in 1..Len(disk) : PathJoin(Folder, disk[i].name) = path

\* The content of the file at path.
ContentAt(path) ==
    disk[CHOOSE i \in 1..Len(disk) : PathJoin(Folder, disk[i].name) = path].content

\* os.unlink(path): the folder without the file at path.
Unlink(d, path) ==
    LET Other(e) == PathJoin(Folder, e.name) # path
    IN  SelectSeq(d, Other)

\* The folder after the extractor wrote content c to name: an existing file
\* is overwritten in place, a new file is listed last.
WriteFile(d, name, c) ==
    IF \E i \in 1..Len(d) : d[i].name = name
    THEN [i \in 1..Len(d) |-> IF d[i].name = name
                              THEN [name |-> name, content |-> c] ELSE d[i]]
    ELSE Append(d, [name |-> name, content |-> c])

\* ------------------------------------------------------- the download task

\* The filesystem call that raises OSError in one run of the task, if any.
Faults == {"none", "makedirs", "listdir", "getsize", "md5sum", "unlink"}

\* What one run of the _download task, from where it starts or resumes to
\* where it suspends or returns, comes to:
\*   next      "probe" or "extract" (the await it suspends at), or "done"
\*   hash      the hash argument of the _really_download it suspends in
\*   cand      the position of the cache candidate in flistdir (0 for none)
\*   filename  self.filename at that point
\*   exc       the exception caught at line 208 ("" for none)
\*   branch    the way the attempt went
\*   disk, dirExists   the download folder at that point
Run(next, hash, k, fname, exc, branch, d, dex) ==
    [next |-> next, hash |-> hash, cand |-> k, filename |-> fname, exc |-> exc,
     branch |-> branch, disk |-> d, dirExists |-> dex]

\* The task raises exc: lines 208-210 follow.
Raise(exc, branch, fname, d) ==
    Run("done", FALSE, 0, fname, exc, branch, d, TRUE)

\* The task reaches line 206 with self.filename = fname.
Succeed(fname, branch, d) ==
    Run("done", FALSE, 0, fname, "", branch, d, TRUE)

\* The task suspends in an await.
Suspend(at, hash, k) == Run(at, hash, k, filename, "", "", disk, TRUE)

\* A generic branch that cuts the expected name at its last "-", like the
\* names of the folder.
GenericBeginDash ==
    LET flistdir == [i \in 1..Len(disk) |-> RSplit1(ListDir[i], "-")[1]]
        parts == RSplit1(Basename(expected_filename), "-")
    IN  IF Len(parts) # 2 THEN Raise("ValueError", "error", filename, disk)
        ELSE IF InList(flistdir, parts[1])
        THEN Suspend("probe", TRUE, IndexOf(flistdir, parts[1]))
        ELSE Suspend("extract", TRUE, 0)

\* Lines 151-179 up to the await of line 158 or 179, 172: the generic extractor.
GenericBegin ==
    LET flistdir == [i \in 1..Len(disk) |-> RSplit1(ListDir[i], "-")[1]]
        parts == RSplit1(Basename(expected_filename), ".")
    IN  IF Len(parts) # 2 THEN Raise("ValueError", "error", filename, disk)
        ELSE IF InList(flistdir, parts[1])
        THEN Suspend("probe", TRUE, IndexOf(flistdir, parts[1]))
        ELSE Suspend("extract", TRUE, 0)

\* A cache decision that looks for a file of the same stem before it looks
\* for the expected file itself.
StableBeginStemFirst ==
    LET ldir == ListDir
        flistdir == [i \in 1..Len(ldir) |-> RSplit1(ldir[i], ".")[1]]
        expected_fname_base == Basename(expected_filename)
        expected_fname_noex == RSplit1(expected_fname_base, ".")[1]
    IN  IF InList(flistdir, expected_fname_noex)
        THEN Succeed(PathJoin(Folder, ldir[IndexOf(flistdir, expected_fname_noex)]),
                     "stable_stem", disk)
        ELSE IF InList(ldir, expected_fname_base)
        THEN Succeed(PathJoin(Folder, expected_fname_base), "stable_exact", disk)
        ELSE Suspend("extract", FALSE, 0)

\* Lines 181-203: the other extractors.
StableBegin ==
    LET ldir == ListDir
        flistdir == [i \in 1..Len(ldir) |-> RSplit1(ldir[i], ".")[1]]
        expected_fname_base == Basename(expected_filename)
        expected_fname_noex == RSplit1(expected_fname_base, ".")[1]
    IN  IF InList(ldir, expected_fname_base)
        THEN Succeed(PathJoin(Folder, expected_fname_base), "stable_exact", disk)
        ELSE IF InList(flistdir, expected_fname_noex)
        THEN Succeed(PathJoin(Folder, ldir[IndexOf(flistdir, expected_fname_noex)]),
                     "stable_stem", disk)
        ELSE Suspend("extract", FALSE, 0)

\* Lines 141-203 up to the first await: the task has passed the guard.
DownloadBegin(fault) ==
    IF ~dirExists /\ fault = "makedirs"
    THEN Run("done", FALSE, 0, filename, "OSError", "error", disk, FALSE)
    ELSE IF expected_filename = None
    THEN Raise("TypeError", "error", filename, disk)
    ELSE IF fault = "listdir" THEN Raise("OSError", "error", filename, disk)
    ELSE IF SplitFirst(Basename(expected_filename), "-") = <<"generic">>
    THEN GenericBegin
    ELSE StableBegin

\* Lines 158-175: the task resumes with the header probe's outcome.
ProbeResume(fault) ==
    LET rsize == IF io.kind = "number" THEN io.rsize ELSE 0
    IN  IF fault = "listdir" THEN Raise("OSError", "error", filename, disk)
        ELSE IF cand > Len(ListDir)
        THEN Raise("IndexError", "error", filename, disk)
        ELSE LET lfile == PathJoin(Folder, ListDir[cand])
             IN  IF fault = "getsize"
                 THEN Raise("OSError", "error", filename, disk)
                 ELSE IF Size(ContentAt(lfile)) # rsize
                 THEN Suspend("extract", TRUE, 0)
                 ELSE Succeed(lfile, "generic_hit", disk)

\* Lines 232-240: the hashing of a finished download.
HashRename(unhashed_fname, fault) ==
    LET final == StrJoin(StrJoin(Md5sum(ContentAt(unhashed_fname), 8),
                                 << <<"-">>, <<".">> >>),
                         RSplit1(unhashed_fname, "."))
    IN  IF fault = "md5sum"
        THEN Raise("OSError", "error", unhashed_fname, disk)
        ELSE IF IsFile(final)
        THEN IF fault = "unlink"
             THEN Raise("OSError", "error", final, disk)
             ELSE Raise("OSError", "collision", final, Unlink(disk, unhashed_fname))
        ELSE Succeed(final, "download_hash", disk)

\* Lines 221-240 and 206: the task resumes with the extractor's outcome.
ExtractResume(fault) ==
    IF io.kind = "raise" THEN Raise("ExtractionError", "error", filename, disk)
    ELSE IF io.kind = "none" THEN Raise("ExtractionError", "error", filename, disk)
    ELSE IF hashArg THEN HashRename(io.path, fault)
    ELSE Succeed(io.path, "download", disk)

\* ----------------------------------------------------------------- futures

\* A future that get_ready_future has not made yet.
NoFuture == [st |-> "none", att |-> 0, exc |-> "", cbCalls |-> 0, ord |-> 0]

\* No awaited call.
NoIO == [kind |-> "idle", rsize |-> 0, path |-> None]

\* No attempt has ended, or one is running.
NoEnd == [outcome |-> "none", exc |-> "", branch |-> ""]

\* BasePlaylistEntry.is_downloaded.
IsDownloaded == IF isDownloading THEN FALSE ELSE filename # None

\* The number of futures resolved so far: the next one to be given a result
\* or an exception is number Resolved + 1.
Resolved == Cardinality({g \in DOMAIN fut : fut[g].ord > 0})

\* The for loop of line 64 reaches future f of the list after the pending
\* futures listed before it.
PassOrd(futures, f) ==
    Resolved + Cardinality({i \in 1..IndexOf(futures, f) :
                               fut[futures[i]].st = "pending"})

\* A pass that goes through the list from its end.
ForEachFutureReversed(cb) ==
    LET futures == waiting
        ReversedOrd(f) ==
            Resolved + Cardinality({i \in IndexOf(futures, f)..Len(futures) :
                                       fut[futures[i]].st = "pending"})
    IN  [waiting |-> <<>>,
         fut |-> [f \in DOMAIN fut |->
                    IF ~InList(futures, f) \/ fut[f].st = "cancelled" THEN fut[f]
                    ELSE IF fut[f].st = "pending"
                    THEN [fut[f] EXCEPT !.st = cb.st, !.att = cb.att,
                                        !.exc = cb.exc, !.cbCalls = @ + 1,
                                        !.ord = ReversedOrd(f)]
                    ELSE [fut[f] EXCEPT !.cbCalls = @ + 1]]]

\* A pass that stops at the first cancelled future instead of skipping it.
ForEachFutureBreak(cb) ==
    LET futures == waiting
        Reached(f) == \A i \in 1..Len(futures) :
                         fut[futures[i]].st = "cancelled" => IndexOf(futures, f) < i
    IN  [waiting |-> <<>>,
         fut |-> [f \in DOMAIN fut |->
                    IF ~InList(futures, f) \/ ~Reached(f) THEN fut[f]
                    ELSE IF fut[f].st = "pending"
                    THEN [fut[f] EXCEPT !.st = cb.st, !.att = cb.att,
                                        !.exc = cb.exc, !.cbCalls = @ + 1,
                                        !.ord = PassOrd(futures, f)]
                    ELSE [fut[f] EXCEPT !.cbCalls = @ + 1]]]

\* A pass that does not replace the list by an empty one.
ForEachFutureKeep(cb) ==
    LET futures == waiting
    IN  [waiting |-> futures,
         fut |-> [f \in DOMAIN fut |->
                    IF ~InList(futures, f) \/ fut[f].st = "cancelled" THEN fut[f]
                    ELSE IF fut[f].st = "pending"
                    THEN [fut[f] EXCEPT !.st = cb.st, !.att = cb.att,
                                        !.exc = cb.exc, !.cbCalls = @ + 1,
                                        !.ord = PassOrd(futures, f)]
                    ELSE [fut[f] EXCEPT !.cbCalls = @ + 1]]]

\* _for_each_future(cb): the list is swapped out and cb is called for each
\* future of it that is not cancelled, in the order of the list; cb is future.set_result(self) or
\* future.set_exception(e), which raises on a future that is done already,
\* and that error is absorbed.
ForEachFuture(cb) ==
    LET futures == waiting
    IN  [waiting |-> <<>>,
         fut |-> [f \in DOMAIN fut |->
                    IF ~InList(futures, f) \/ fut[f].st = "cancelled" THEN fut[f]
                    ELSE IF fut[f].st = "pending"
                    THEN [fut[f] EXCEPT !.st = cb.st, !.att = cb.att,
                                        !.exc = cb.exc, !.cbCalls = @ + 1,
                                        !.ord = PassOrd(futures, f)]
                    ELSE [fut[f] EXCEPT !.cbCalls = @ + 1]]]

\* The callback of line 206 or of line 210 for attempt att.
Callback(run, att) ==
    IF run.exc = "" THEN [st |-> "result", att |-> att, exc |-> ""]
    ELSE [st |-> "exception", att |-> att, exc |-> run.exc]

\* A task that triggers the ready callbacks before it awaits the download.
ApplyEager(run, att) ==
    /\ filename' = run.filename
    /\ disk' = run.disk
    /\ dirExists' = run.dirExists
    /\ io' = IF run.next = "done" THEN NoIO ELSE [NoIO EXCEPT !.kind = "pending"]
    /\ hashArg' = run.hash
    /\ cand' = run.cand
    /\ \E pass \in {ForEachFuture(Callback(run, att))} :
          /\ fut' = pass.fut
          /\ waiting' = pass.waiting
    /\ IF run.next = "done"
       THEN /\ isDownloading' = FALSE
            /\ pc' = "idle"
            /\ lastEnd' = [outcome |-> IF run.exc = "" THEN "success" ELSE "failure",
                           exc |-> run.exc, branch |-> run.branch]
       ELSE /\ isDownloading' = TRUE
            /\ pc' = run.next
            /\ lastEnd' = NoEnd
    /\ everDownloaded' = (everDownloaded \/ IsDownloaded')

\* The effect of one run of the task of attempt att: it suspends, or it
\* triggers the callbacks and clears _is_downloading (lines 205-213).
Apply(run, att) ==
    /\ filename' = run.filename
    /\ disk' = run.disk
    /\ dirExists' = run.dirExists
    /\ io' = IF run.next = "done" THEN NoIO ELSE [NoIO EXCEPT !.kind = "pending"]
    /\ hashArg' = run.hash
    /\ cand' = run.cand
    /\ IF run.next = "done"
       THEN /\ \E pass \in {ForEachFuture(Callback(run, att))} :
                  /\ fut' = pass.fut
                  /\ waiting' = pass.waiting
            /\ isDownloading' = FALSE
            /\ pc' = "idle"
            /\ lastEnd' = [outcome |-> IF run.exc = "" THEN "success" ELSE "failure",
                           exc |-> run.exc, branch |-> run.branch]
       ELSE /\ isDownloading' = TRUE
            /\ pc' = run.next
            /\ lastEnd' = NoEnd
            /\ UNCHANGED <<fut, waiting>>
    /\ everDownloaded' = (everDownloaded \/ IsDownloaded')

\* ----------------------------------------------------------------- actions

\* A get_ready_future that appends the future without scheduling a task.
GetReadyFutureNoTask ==
    /\ nextFut <= MaxFutures
    /\ nextFut' = nextFut + 1
    /\ burst' = (burst /\ started = 0)
    /\ IF IsDownloaded
       THEN /\ fut' = [fut EXCEPT ![nextFut] = [NoFuture EXCEPT !.st = "result",
                                                             !.ord = Resolved + 1]]
            /\ UNCHANGED <<ready, waiting>>
       ELSE /\ ready' = ready
            /\ waiting' = Append(waiting, nextFut)
            /\ fut' = [fut EXCEPT ![nextFut] = [NoFuture EXCEPT !.st = "pending"]]
    /\ UNCHANGED <<filename, isDownloading, expected_filename, dirExists, disk,
                   pc, hashArg, cand, io, attempt, started, everDownloaded,
                   lastEnd, inside, restored, workers>>

\* get_ready_future(), lines 40-55.
GetReadyFuture ==
    /\ nextFut <= MaxFutures
    /\ nextFut' = nextFut + 1
    /\ burst' = (burst /\ started = 0)
    /\ IF IsDownloaded
       THEN /\ fut' = [fut EXCEPT ![nextFut] = [NoFuture EXCEPT !.st = "result",
                                                             !.ord = Resolved + 1]]
            /\ UNCHANGED <<ready, waiting>>
       ELSE /\ ready' = Append(ready, "dl")
            /\ waiting' = Append(waiting, nextFut)
            /\ fut' = [fut EXCEPT ![nextFut] = [NoFuture EXCEPT !.st = "pending"]]
    /\ UNCHANGED <<filename, isDownloading, expected_filename, dirExists, disk,
                   pc, hashArg, cand, io, attempt, started, everDownloaded,
                   lastEnd, inside, restored, workers>>

\* The owner of a future cancels it before it is resolved.
Cancel ==
    \E f \in DOMAIN fut :
        /\ Cardinality({g \in DOMAIN fut : fut[g].st = "cancelled"}) < MaxCancels
        /\ fut[f].st = "pending"
        /\ fut' = [fut EXCEPT ![f].st = "cancelled"]
        /\ UNCHANGED <<filename, isDownloading, waiting, expected_filename,
                       dirExists, disk, ready, pc, hashArg, cand, io, nextFut,
                       attempt, started, burst, everDownloaded, lastEnd,
                       inside, restored, workers>>

\* A task that does not return when it finds _is_downloading true.
TaskStartNoGuard ==
    /\ ready # <<>>
    /\ Head(ready) = "dl"
    /\ ready' = Tail(ready)
    /\ started' = started + 1
    /\ attempt' = attempt + 1
    /\ \E run \in {DownloadBegin(fault) : fault \in Faults} :
          /\ Apply(run, attempt + 1)
          /\ inside' = IF run.next = "done" THEN inside ELSE inside + 1
    /\ UNCHANGED <<expected_filename, nextFut, burst, restored, workers>>

\* The loop runs a scheduled _download task from its start: lines 137-213 up
\* to the first await.
TaskStart ==
    /\ ready # <<>>
    /\ Head(ready) = "dl"
    /\ ready' = Tail(ready)
    /\ started' = started + 1
    /\ IF isDownloading
       THEN UNCHANGED <<filename, isDownloading, waiting, dirExists, disk, pc,
                        hashArg, cand, io, fut, attempt, everDownloaded, lastEnd,
                        inside>>
       ELSE /\ attempt' = attempt + 1
            /\ \E run \in {DownloadBegin(fault) : fault \in Faults} :
                  /\ Apply(run, attempt + 1)
                  /\ inside' = IF run.next = "done" THEN inside ELSE inside + 1
    /\ UNCHANGED <<expected_filename, nextFut, burst, restored, workers>>

\* The loop resumes the suspended task with the outcome of the awaited call.
TaskResume ==
    /\ ready # <<>>
    /\ Head(ready) = "wake"
    /\ ready' = Tail(ready)
    /\ \E run \in {IF pc = "probe" THEN ProbeResume(fault)
                   ELSE ExtractResume(fault) : fault \in Faults} :
          /\ Apply(run, attempt)
          /\ inside' = IF run.next = "done" THEN inside - 1 ELSE inside
    /\ UNCHANGED <<expected_filename, nextFut, attempt, started, burst, restored,
                   workers>>

\* get_header completes: the content length of what the url serves, a value
\* that is no number, or an exception; the waiting task becomes ready to run.
HeaderArrives ==
    /\ pc = "probe"
    /\ io.kind = "pending"
    /\ \E r \in {[NoIO EXCEPT !.kind = "number", !.rsize = Size(c)] : c \in Contents}
              \cup {[NoIO EXCEPT !.kind = "raise"], [NoIO EXCEPT !.kind = "notnumber"]} :
          io' = r
    /\ ready' = Append(ready, "wake")
    /\ UNCHANGED <<filename, isDownloading, waiting, expected_filename, dirExists,
                   disk, pc, hashArg, cand, fut, nextFut, attempt, started, burst,
                   everDownloaded, lastEnd, inside, restored, workers>>

\* ytdl.prepare_filename(result), line 230: the name the extractor gives the
\* download of the entry's url.  The model has one url for each extractor,
\* which the extractor part of the expected filename tells apart.
PrepareFilename ==
    IF SplitFirst(Basename(expected_filename), "-") = <<"generic">>
    THEN GenericName
    ELSE StableName

\* extract_info completes: an exception, None, or a result whose file
\* (prepare_filename(result)) the extractor has written to the folder.
ExtractorReturns ==
    /\ pc = "extract"
    /\ io.kind = "pending"
    /\ \/ /\ \E k \in {"raise", "none"} : io' = [NoIO EXCEPT !.kind = k]
          /\ disk' = disk
       \/ \E c \in Contents :
             /\ io' = [NoIO EXCEPT !.kind = "result", !.path = PrepareFilename]
             /\ disk' = WriteFile(disk, Basename(PrepareFilename), c)
    /\ ready' = Append(ready, "wake")
    /\ UNCHANGED <<filename, isDownloading, waiting, expected_filename, dirExists,
                   pc, hashArg, cand, fut, nextFut, attempt, started, burst,
                   everDownloaded, lastEnd, inside, restored, workers>>

\* The file of another entry of the playlist, which downloads into the same
\* folder.
OtherName == <<"youtube", "-", "baz", ".", "mp3">>

\* Directory d with entry e listed after its first k entries.
InsertAt(d, k, e) == SubSeq(d, 1, k) \o <<e>> \o SubSeq(d, k + 1, Len(d))

\* Another entry's extractor writes its file to the shared download folder;
\* os.listdir lists the new file at whatever place the filesystem gives it.
OtherEntryWrites ==
    /\ dirExists
    /\ ~InList(ListDir, OtherName)
    /\ \E k \in 0..Len(disk) :
          disk' = InsertAt(disk, k, [name |-> OtherName, content |-> 1])
    /\ UNCHANGED <<filename, isDownloading, waiting, expected_filename, dirExists,
                   ready, pc, hashArg, cand, io, fut, nextFut, attempt, started,
                   burst, everDownloaded, lastEnd, inside, restored, workers>>

\* ------------------------------------------------------------ JSON records

\* to_json, lines 116-134: the fields of the record that from_json reads
\* into the entry's download state.
ToJson == [downloaded |-> IsDownloaded, filename |-> filename]

\* from_json, lines 95-114: the fifth argument it passes to the constructor,
\* which is the parameter expected_filename.
FromJson(data) == IF data.downloaded THEN data.filename ELSE None

\* The entry is written with to_json and a new entry is made of the record
\* with from_json, in a new run of the bot: the new entry starts as
\* __init__ leaves it, and the tasks and futures of the old one are gone.
Restore ==
    /\ restored = "no"
    /\ \E data \in {ToJson} :
          /\ restored' = IF data.downloaded THEN "downloaded"
                                             ELSE "not_downloaded"
          /\ expected_filename' = FromJson(data)
    /\ filename' = None
    /\ isDownloading' = FALSE
    /\ waiting' = <<>>
    /\ ready' = <<>>
    /\ pc' = "idle"
    /\ hashArg' = FALSE
    /\ cand' = 0
    /\ io' = NoIO
    /\ fut' = [f \in 1..MaxFutures |-> NoFuture]
    /\ nextFut' = 1
    /\ attempt' = 0
    /\ started' = 0
    /\ burst' = TRUE
    /\ everDownloaded' = FALSE
    /\ lastEnd' = NoEnd
    /\ inside' = 0
    /\ UNCHANGED <<dirExists, disk, workers>>

\* --------------------------------------------------------- OsuPlaylistEntry

\* os.path.join(unzip, AudioFilename) of the beatmap: line 326.
OsuName == <<"audio_cache", "/", "id", "/", "audio", ".", "mp3">>

\* The loop runs a scheduled OsuPlaylistEntry._download task, lines 283-291:
\* it hands _really_download to the thread pool and returns; nothing is
\* awaited, so _is_downloading is set and cleared in the same run.
OsuTaskStart ==
    /\ ready # <<>>
    /\ Head(ready) = "dl"
    /\ ready' = Tail(ready)
    /\ started' = started + 1
    /\ IF isDownloading
       THEN UNCHANGED <<attempt, workers>>
       ELSE /\ attempt' = attempt + 1
            /\ workers' = workers + 1
    /\ isDownloading' = isDownloading
    /\ UNCHANGED <<filename, waiting, expected_filename, dirExists, disk, pc,
                   hashArg, cand, io, fut, nextFut, burst, everDownloaded,
                   lastEnd, inside, restored>>

\* A worker thread finishes _really_download, lines 294-330: it has set
\* filename from an AudioFilename line, or it found none, or it raised an
\* ExtractionError, which stays in the executor's future that nobody keeps.
OsuWorkerEnds ==
    /\ workers > 0
    /\ workers' = workers - 1
    /\ \E found \in BOOLEAN : filename' = IF found THEN OsuName ELSE filename
    /\ UNCHANGED <<isDownloading, waiting, expected_filename, dirExists, disk,
                   ready, pc, hashArg, cand, io, fut, nextFut, attempt, started,
                   burst, lastEnd, inside, restored>>
    /\ everDownloaded' = (everDownloaded \/ IsDownloaded')

\* ------------------------------------------------------------ specification

\* The name with the other extension.
Drift(name) ==
    StrJoin(<<".">>, <<RSplit1(name, ".")[1],
                       IF RSplit1(name, ".")[2] = <<"mp3">> THEN <<"m4a">>
                       ELSE <<"mp3">> >>)

\* The name a hashed download of content c is given.
Hashed(name, c) ==
    StrJoin(StrJoin(Md5sum(c, 8), << <<"-">>, <<".">> >>), RSplit1(name, "."))

\* What the hashed files of earlier downloads hold.
Cached == {Empty, 1}

\* The files the folder may hold before the entry is used: for the generic
\* extractor the hashed files of earlier downloads, one of them of no bytes,
\* for the others the expected file and the same file with the other
\* extension.
InitFiles(expected) ==
    IF expected = None THEN {}
    ELSE LET base == Basename(expected)
         IN  IF SplitFirst(base, "-") = <<"generic">>
             THEN {[name |-> Hashed(base, c), content |-> c] : c \in Cached}
             ELSE [name : {base, Drift(base)}, content : {1}]

\* The folders the entry may start with.
InitDisks(expected) ==
    {d \in UNION {[1..n -> InitFiles(expected)] : n \in 0..MaxInitFiles} :
        \A i, j \in 1..Len(d) : i # j => d[i].name # d[j].name}

Init ==
    /\ filename = None
    /\ isDownloading = FALSE
    /\ waiting = <<>>
    /\ expected_filename \in ExpectedNames
    /\ dirExists \in BOOLEAN
    /\ disk \in IF dirExists THEN InitDisks(expected_filename) ELSE {<<>>}
    /\ ready = <<>>
    /\ pc = "idle"
    /\ hashArg = FALSE
    /\ cand = 0
    /\ io = NoIO
    /\ fut = [f \in 1..MaxFutures |-> NoFuture]
    /\ nextFut = 1
    /\ attempt = 0
    /\ started = 0
    /\ burst = TRUE
    /\ everDownloaded = FALSE
    /\ lastEnd = NoEnd
    /\ inside = 0
    /\ restored = "no"
    /\ workers = 0

Next ==
    \/ GetReadyFuture
    \/ Cancel
    \/ TaskStart
    \/ TaskResume
    \/ HeaderArrives
    \/ ExtractorReturns

Spec == Init /\ [][Next]_vars

\* The entry and the other entries that download into its folder.
SharedNext == Next \/ OtherEntryWrites

SharedSpec == Init /\ [][SharedNext]_vars

\* The entry, its JSON record and the entry made of the record.
RestoreNext == Next \/ Restore

RestoreSpec == Init /\ [][RestoreNext]_vars

\* An OsuPlaylistEntry after its construction, lines 273-281.
OsuInit ==
    /\ filename = None
    /\ isDownloading = FALSE
    /\ waiting = <<>>
    /\ expected_filename = None
    /\ dirExists = TRUE
    /\ disk = <<>>
    /\ ready = <<>>
    /\ pc = "idle"
    /\ hashArg = FALSE
    /\ cand = 0
    /\ io = NoIO
    /\ fut = [f \in 1..MaxFutures |-> NoFuture]
    /\ nextFut = 1
    /\ attempt = 0
    /\ started = 0
    /\ burst = TRUE
    /\ everDownloaded = FALSE
    /\ lastEnd = NoEnd
    /\ inside = 0
    /\ restored = "no"
    /\ workers = 0

OsuNext ==
    \/ GetReadyFuture
    \/ Cancel
    \/ OsuTaskStart
    \/ OsuWorkerEnds

OsuSpec == OsuInit /\ [][OsuNext]_vars

\* Fair scheduling of the osu entry: the loop runs every scheduled task and
\* the thread pool finishes every call it was given.
OsuFairSpec ==
    /\ OsuSpec
    /\ WF_vars(OsuTaskStart)
    /\ WF_vars(OsuWorkerEnds)

\* The loop takes the callback at the head of its queue and runs it: a
\* TaskStart or a TaskResume step, one of which is enabled whenever the queue
\* is not empty.
LoopRuns == ready # <<>> /\ ready' = Tail(ready)

\* Fair scheduling: the loop runs every callback that is ready, and every
\* awaited header probe and extractor call completes.
FairSpec ==
    /\ Spec
    /\ WF_ready(LoopRuns)
    /\ WF_vars(HeaderArrives)
    /\ WF_vars(ExtractorReturns)

\* ------------------------------------------------------------------ claims

\* Future f was appended to _waiting_futures by get_ready_future.
Appended(f) == fut[f].st # "none" /\ ~(fut[f].st = "result" /\ fut[f].att = 0)

\* The path of the hashed file of a download of the expected file.
HashedPaths ==
    {PathJoin(Folder, Hashed(Basename(expected_filename), c)) : c \in Contents}

\* C1: when every get_ready_future call was made before the first scheduled
\* _download task started, exactly one of the tasks that have run passed the
\* _is_downloading guard, whatever the outcome of the first one.
C1_ExactlyOneDownload == (burst /\ started >= 1) => attempt = 1

\* C2: under fair scheduling, whenever futures are pending a state follows in
\* which every future made so far is resolved with the entry or an exception,
\* or was cancelled by its owner.
C2_EventuallyResolved ==
    (\E f \in DOMAIN fut : fut[f].st = "pending")
        ~> (\A f \in DOMAIN fut : fut[f].st # "pending")

\* C2: a future that waited was resolved with the entry by an attempt, and
\* another one with an exception.
C2_Witness ==
    \E f, g \in DOMAIN fut :
        /\ fut[f].att >= 1 /\ fut[f].st = "result"
        /\ fut[g].att >= 1 /\ fut[g].st = "exception"

\* C3 as claimed: a future that was appended is in the list and was never
\* passed to the resolution callback, or it has left the list and was passed
\* to the callback exactly once.
C3_Original ==
    \A f \in DOMAIN fut :
        Appended(f) =>
            IF InList(waiting, f) THEN fut[f].cbCalls = 0 ELSE fut[f].cbCalls = 1

\* C3 as amended: a future that was appended is in the list and was never
\* passed to the resolution callback, or it has left the list and was passed
\* to the callback exactly once, or, cancelled by its owner before the pass,
\* it has left the list and was never passed to the callback.
C3_ExactlyOnePass ==
    \A f \in DOMAIN fut :
        Appended(f) =>
            IF InList(waiting, f) THEN fut[f].cbCalls = 0
            ELSE IF fut[f].st = "cancelled" THEN fut[f].cbCalls = 0
            ELSE fut[f].cbCalls = 1 /\ fut[f].st \in {"result", "exception"}

\* C3: an attempt resolved one future, a later attempt resolved a future
\* appended in between, and a future appended since then is waiting.
C3_Witness ==
    \E f, g, h \in DOMAIN fut :
        /\ fut[f].att = 1 /\ fut[f].cbCalls = 1
        /\ fut[g].att = 2 /\ fut[g].cbCalls = 1
        /\ InList(waiting, h)

\* C4: the futures resolved by one download attempt all hold the entry, or
\* they all hold the same exception.
C4_SameOutcomePerAttempt ==
    \A f, g \in DOMAIN fut :
        (fut[f].att >= 1 /\ fut[f].att = fut[g].att) =>
            (fut[f].st = fut[g].st /\ fut[f].exc = fut[g].exc)

\* C4: one attempt resolved two futures with an exception, another attempt
\* resolved a future with the entry.
C4_Witness ==
    \E f, g, h \in DOMAIN fut :
        /\ f # g /\ fut[f].att >= 1 /\ fut[f].att = fut[g].att
        /\ fut[f].st = "exception"
        /\ fut[h].att >= 1 /\ fut[h].st = "result"

\* C5: once is_downloaded has been true, a get_ready_future call returns a
\* future that is resolved with the entry already, appends nothing to
\* _waiting_futures and schedules no task.
C5_ImmediateOnceDownloaded ==
    [][(everDownloaded /\ nextFut' = nextFut + 1) =>
          /\ fut'[nextFut].st = "result"
          /\ waiting' = waiting
          /\ ready' = ready]_vars

\* C6: after an attempt that resolved its waiters with success, filename is
\* the path of a file of the download folder.
C6_SuccessMeansFileExists ==
    (~isDownloading /\ lastEnd.outcome = "success") =>
        (filename # None /\ IsFile(filename))

\* C7: after an attempt in which the extractor raised or returned None, the
\* futures the attempt resolved hold the ExtractionError, _is_downloading is
\* false and the entry is not downloaded, so that the next get_ready_future
\* call starts a new attempt.
C7_ExtractionFailureRetryable ==
    (pc = "idle" /\ lastEnd.exc = "ExtractionError") =>
        /\ ~isDownloading
        /\ \A f \in DOMAIN fut :
              fut[f].att = attempt =>
                  (fut[f].st = "exception" /\ fut[f].exc = "ExtractionError")
        /\ ~IsDownloaded

\* C8: after an attempt that failed in a filesystem call, the entry is not
\* downloaded, so that the next get_ready_future call starts a new attempt.
C8_FilesystemFailureRetryable ==
    (pc = "idle" /\ lastEnd.exc = "OSError") => ~IsDownloaded

\* C9: after a hashed download that found a file at the hashed name, the
\* attempt has succeeded, filename is the hashed name, the hashed file exists
\* and the unhashed file is gone.
C9_FirstWriterWins ==
    (pc = "idle" /\ lastEnd.branch = "collision") =>
        /\ lastEnd.outcome = "success"
        /\ filename \in HashedPaths
        /\ IsFile(filename)
        /\ ~IsFile(expected_filename)

\* C10: after a hashed download that found no file at the hashed name,
\* filename is the unhashed name with "-" and the 8 checksum digits before
\* the extension, a file exists there and none at the unhashed name.
C10_RenamedToHashedName ==
    (pc = "idle" /\ lastEnd.branch = "download_hash") =>
        /\ filename \in HashedPaths
        /\ IsFile(filename)
        /\ ~IsFile(expected_filename)

\* The entry's expected filename is one of the generic extractor.
IsGeneric ==
    /\ expected_filename # None
    /\ SplitFirst(Basename(expected_filename), "-") = <<"generic">>

\* The positions in the folder's listing of the files whose name, cut at the
\* last sep, is stem.
StemMatches(stem, sep) ==
    {i \in 1..Len(disk) : RSplit1(disk[i].name, sep)[1] = stem}

\* C11: an attempt of a stable-extractor entry whose folder could be listed
\* sets filename to the expected file when the folder lists it, without a
\* probe or an extractor call; otherwise to the first listed file of the same
\* name without the extension, likewise; otherwise it calls the extractor
\* for a download without hashing and leaves filename alone.
C11_StableCacheDecision ==
    [][(/\ attempt' = attempt + 1
        /\ expected_filename # None
        /\ ~IsGeneric
        /\ lastEnd'.exc # "OSError") =>
          LET base == Basename(expected_filename)
              exact == {i \in 1..Len(disk) : disk[i].name = base}
              stems == StemMatches(RSplit1(base, ".")[1], ".")
          IN  IF exact # {}
              THEN /\ filename' = PathJoin(Folder, base)
                   /\ pc' = "idle" /\ io' = NoIO
                   /\ lastEnd'.outcome = "success"
              ELSE IF stems # {}
              THEN /\ filename' = PathJoin(Folder, disk[MinOf(stems)].name)
                   /\ pc' = "idle" /\ io' = NoIO
                   /\ lastEnd'.outcome = "success"
              ELSE /\ pc' = "extract" /\ io'.kind = "pending"
                   /\ hashArg' = FALSE
                   /\ filename' = filename]_vars

\* C11: an attempt took the expected file although the folder lists the file
\* with the other extension before it.
C11_Witness ==
    /\ lastEnd.branch = "stable_exact"
    /\ Len(disk) >= 2
    /\ disk[1].name = Drift(Basename(expected_filename))
    /\ filename = expected_filename

\* The expected stem of the generic branch, as line 154 computes it.
ExpectedStem == RSplit1(Basename(expected_filename), ".")[1]

\* C12: an attempt of a generic-extractor entry that finds no listed file of
\* the expected stem calls the extractor for a hashed download without a
\* probe, and otherwise makes one probe; after the probe, the file whose stem
\* matched is the one measured: when its size is the remote size filename is
\* set to it and the extractor is not called, and when the sizes differ the
\* extractor is called for a hashed download.
C12_GenericCacheDecision ==
    [][/\ (attempt' = attempt + 1 /\ IsGeneric /\ lastEnd'.exc = "") =>
             IF StemMatches(ExpectedStem, "-") = {}
             THEN pc' = "extract" /\ hashArg' /\ io'.kind = "pending"
             ELSE pc' = "probe" /\ io'.kind = "pending"
       /\ (pc = "probe" /\ pc' # "probe" /\ lastEnd'.exc # "OSError") =>
             LET rsize == IF io.kind = "number" THEN io.rsize ELSE 0
                 stems == StemMatches(ExpectedStem, "-")
             IN  /\ stems # {}
                 /\ LET lfile == PathJoin(Folder, disk[MinOf(stems)].name)
                    IN  IF Size(ContentAt(lfile)) = rsize
                        THEN /\ filename' = lfile
                             /\ pc' = "idle"
                             /\ lastEnd'.outcome = "success"
                        ELSE /\ pc' = "extract" /\ hashArg'
                             /\ io'.kind = "pending"]_vars

\* C13: when the header probe raised or gave a value that is no number, the
\* attempt does not fail and does not reuse the candidate file, whatever that
\* file holds: it goes on to call the extractor for a hashed download.
C13_ProbeFailureMeansStale ==
    [][(/\ pc = "probe" /\ pc' # "probe"
        /\ io.kind \in {"raise", "notnumber"}
        /\ lastEnd'.exc # "OSError") =>
          /\ pc' = "extract" /\ hashArg'
          /\ io'.kind = "pending"
          /\ filename' = filename]_vars

\* C14: at most one _download task is between line 141 and the finally
\* block, and _is_downloading is true exactly while one is; a task that
\* starts while _is_downloading is true leaves the flag, filename, the
\* waiting list, the futures and the suspended task as they are.
C14_MutualExclusion ==
    /\ [](inside <= 1 /\ (isDownloading <=> inside = 1))
    /\ [][(started' = started + 1 /\ isDownloading) =>
             /\ isDownloading'
             /\ inside' = inside
             /\ filename' = filename
             /\ waiting' = waiting
             /\ fut' = fut
             /\ pc' = pc /\ io' = io]_vars

\* C14: a scheduled task has returned at the guard while another task is
\* suspended in its attempt and two futures wait.
C14_Witness ==
    /\ started > attempt
    /\ isDownloading
    /\ inside = 1
    /\ Len(waiting) >= 2

\* C15: of two futures that get_ready_future returned one after the other
\* and that are not cancelled, the later one is resolved only when the
\* earlier one is, and the earlier one was resolved first.
C15_ResolvedInOrder ==
    \A f, g \in DOMAIN fut :
        (/\ f < g
         /\ fut[f].st \notin {"none", "cancelled"}
         /\ fut[g].st \in {"result", "exception"}) =>
            /\ fut[f].st \in {"result", "exception"}
            /\ fut[f].ord < fut[g].ord

\* C15: one pass resolved two futures, and a future returned later was
\* resolved by another attempt.
C15_Witness ==
    \E f, g, h \in DOMAIN fut :
        /\ f < g /\ g < h
        /\ fut[f].att >= 1 /\ fut[g].att = fut[f].att
        /\ fut[h].att > fut[g].att
        /\ fut[f].ord = 1 /\ fut[g].ord = 2 /\ fut[h].ord = 3

\* An attempt ends in this step: its task runs lines 205-213.
AttemptEnds ==
    /\ pc' = "idle"
    /\ \/ pc # "idle"
       \/ attempt' = attempt + 1

\* C16: a cancelled future is never given a result or an exception and is
\* never passed to the callback; the pass that ends an attempt resolves every
\* future of the list that is not cancelled, wherever cancelled futures stand
\* in the list, and returns to the task, which clears _is_downloading.
C16_CancelledSkipped ==
    [][/\ \A f \in DOMAIN fut : fut[f].st = "cancelled" => fut'[f] = fut[f]
       /\ AttemptEnds =>
             /\ \A i \in 1..Len(waiting) :
                   fut[waiting[i]].st = "pending" =>
                       /\ fut'[waiting[i]].st \in {"result", "exception"}
                       /\ fut'[waiting[i]].att = attempt'
             /\ waiting' = <<>>
             /\ ~isDownloading']_vars

\* C16: the only pass so far skipped a cancelled future and resolved a future
\* that stood after it in the list.
C16_Witness ==
    /\ attempt = 1
    /\ pc = "idle"
    /\ \E f, g \in DOMAIN fut :
          /\ f < g
          /\ fut[f].st = "cancelled" /\ fut[f].cbCalls = 0
          /\ ~InList(waiting, f)
          /\ fut[g].att = 1 /\ fut[g].cbCalls = 1

\* The expected name cut at its last "-".
DashStem == RSplit1(Basename(expected_filename), "-")[1]

\* C17 as claimed: the expected stem is the text before the last "-" of the
\* expected name, like the stem of a listed file, and an attempt of a
\* generic-extractor entry probes exactly when a listed file has that stem.
C17_Original ==
    [][(attempt' = attempt + 1 /\ IsGeneric /\ lastEnd'.exc = "") =>
          (pc' = "probe" <=> StemMatches(DashStem, "-") # {})]_vars

\* C17 as amended: the expected stem is the expected base name without its
\* extension (the text before its last "."), the stem of a listed file is the
\* text before its last "-", and an attempt of a generic-extractor entry
\* probes exactly when a listed file's stem is the expected stem, with the
\* first such file as the candidate.
C17_StemsCompared ==
    [][(attempt' = attempt + 1 /\ IsGeneric /\ lastEnd'.exc = "") =>
          IF StemMatches(ExpectedStem, "-") # {}
          THEN pc' = "probe" /\ cand' = MinOf(StemMatches(ExpectedStem, "-"))
          ELSE pc' = "extract" /\ cand' = 0]_vars

\* C17: the task probes for a candidate whose text before the last "-" is
\* the expected name without its extension, which is not the text before the
\* last "-" of the expected name.
C17_Witness ==
    /\ pc = "probe"
    /\ cand >= 1
    /\ RSplit1(disk[cand].name, "-")[1] = ExpectedStem
    /\ DashStem # ExpectedStem

\* C18: for an OsuPlaylistEntry under fair scheduling, whenever futures are
\* pending a state follows in which every future made so far is resolved
\* with the entry or an exception, or was cancelled by its owner.
C18_OsuEventuallyResolved ==
    (\E f \in DOMAIN fut : fut[f].st = "pending")
        ~> (\A f \in DOMAIN fut : fut[f].st # "pending")

\* C19: whenever _waiting_futures is not empty, a download attempt is in
\* progress or a scheduled _download task has not started yet.
C19_WaitersHaveATask ==
    waiting # <<>> => (isDownloading \/ InList(ready, "dl"))

\* C19: two futures wait for the attempt in progress and no task is
\* scheduled any more: the tasks scheduled for them returned at the guard or
\* run the attempt.
C19_Witness ==
    /\ Len(waiting) >= 2
    /\ isDownloading
    /\ ~InList(ready, "dl")
    /\ started > attempt

\* C20: an entry made by from_json of a to_json record, whether the record
\* says downloaded or not, has no filename before its first attempt, and its
\* first attempt does not end with the TypeError or ValueError of an
\* expected filename that lines 148 and 154 cannot take apart, that is,
\* before the folder is listed.
C20_RestoredEntryDownloads ==
    restored # "no" =>
        /\ attempt = 0 => (filename = None /\ ~IsDownloaded)
        /\ (attempt = 1 /\ pc = "idle") =>
               lastEnd.exc \notin {"TypeError", "ValueError"}

====
